---------------------------- MODULE Spec2Model ----------------------------
(***************************************************************************)
(* Model of src/index.js: the content script that re-opens the edit dialog *)
(* of the last sent message when Up Arrow is released in the empty,        *)
(* focused message-composition field.                                      *)
(*                                                                         *)
(* Strings are sequences of one-character strings, so that the regular     *)
(* expression, the literal replacements and Number() are computed and not  *)
(* assumed.  A Date is its time value, counted in minutes (the code counts *)
(* milliseconds; every quantity it compares is a whole number of minutes   *)
(* in this model, and 32-bit integers cannot hold milliseconds since       *)
(* 1970).  Local time is taken without time zone or daylight saving.       *)
(***************************************************************************)
EXTENDS Integers, Sequences, FiniteSets, TLC

\* Bounds of the model.
MaxInv == 2          \* key-up events dispatched in one behaviour
MaxMsgs == 2         \* outgoing-message containers in the document

(***************************************************************************)
(* Characters and strings                                                  *)
(***************************************************************************)
NBSP == "U+00A0"     \* one character: the no-break space

Digits == <<"0", "1", "2", "3", "4", "5", "6", "7", "8", "9">>
Uppers == <<"A", "B", "C", "D", "E", "F", "G", "H", "I", "J", "K", "L", "M",
            "N", "O", "P", "Q", "R", "S", "T", "U", "V", "W", "X", "Y", "Z">>
Lowers == <<"a", "b", "c", "d", "e", "f", "g", "h", "i", "j", "k", "l", "m",
            "n", "o", "p", "q", "r", "s", "t", "u", "v", "w", "x", "y", "z">>

\* s[i], or "" past either end of s.
At(s, i) == IF i \in 1..Len(s) THEN s[i] ELSE ""

\* \d
IsDigit(c) == \E k \in 1..10 : Digits[k] = c

\* \s (the white space that occurs in the page's strings)
IsSpace(c) == c \in {" ", NBSP}

DigitValue(c) == (CHOOSE k \in 1..10 : Digits[k] = c) - 1

\* String.prototype.toLowerCase, one character.
LowerChar(c) ==
  IF \E k \in 1..26 : Uppers[k] = c
  THEN Lowers[CHOOSE k \in 1..26 : Uppers[k] = c]
  ELSE c

\* String.prototype.toLowerCase
ToLowerCase(s) == [k \in 1..Len(s) |-> LowerChar(s[k])]

\* Number(s) for a string of decimal digits.
RECURSIVE Number(_)
Number(s) ==
  IF Len(s) = 0 THEN 0
  ELSE 10 * Number(SubSeq(s, 1, Len(s) - 1)) + DigitValue(s[Len(s)])

\* Whether the text t stands in s at position i.
StartsWithAt(s, i, t) ==
  /\ i + Len(t) - 1 <= Len(s)
  /\ \A k \in 1..Len(t) : s[i + k - 1] = t[k]

Entity == <<"&", "n", "b", "s", "p", ";">>

\* string.replace(/&nbsp;/g, " "), from position i on.
RECURSIVE ReplaceEntityFrom(_, _)
ReplaceEntityFrom(s, i) ==
  IF i > Len(s) THEN <<>>
  ELSE IF StartsWithAt(s, i, Entity)
       THEN <<" ">> \o ReplaceEntityFrom(s, i + Len(Entity))
       ELSE <<s[i]>> \o ReplaceEntityFrom(s, i + 1)

ReplaceEntity(s) == ReplaceEntityFrom(s, 1)

\* matches[2].replace(/\.\s?/g, ""), from position i on: every full stop
\* goes, with one white-space character after it when there is one.
RECURSIVE StripDotsFrom(_, _)
StripDotsFrom(s, i) ==
  IF i > Len(s) THEN <<>>
  ELSE IF s[i] = "."
       THEN StripDotsFrom(s, IF IsSpace(At(s, i + 1)) THEN i + 2 ELSE i + 1)
       ELSE <<s[i]>> \o StripDotsFrom(s, i + 1)

StripDots(s) == StripDotsFrom(s, 1)

\* String.prototype.trim
RECURSIVE TrimStart(_)
TrimStart(s) ==
  IF Len(s) > 0 /\ IsSpace(s[1]) THEN TrimStart(Tail(s)) ELSE s

RECURSIVE TrimEnd(_)
TrimEnd(s) ==
  IF Len(s) > 0 /\ IsSpace(s[Len(s)])
  THEN TrimEnd(SubSeq(s, 1, Len(s) - 1))
  ELSE s

Trim(s) == TrimEnd(TrimStart(s))

(***************************************************************************)
(* dateTimeRegex:                                                          *)
(*   \[(\d{1,2}:\d{2})(?:\s*(a\.?\s*m\.?|p\.?\s*m\.?))?, (\d{1,2}\/\d{1,2}\/\d{4})\]  /i *)
(* Every optional or repeated piece is followed by a piece that cannot     *)
(* start with the same character, so at one start position the greedy      *)
(* match is the only match and backtracking finds no other.                *)
(***************************************************************************)

\* The position after \d{1,2} at i; 0 when no digit stands there.
Digits12End(s, i) ==
  IF ~IsDigit(At(s, i)) THEN 0
  ELSE IF IsDigit(At(s, i + 1)) THEN i + 2 ELSE i + 1

\* The position after \s* at i.
RECURSIVE SkipSpaces(_, _)
SkipSpaces(s, i) == IF IsSpace(At(s, i)) THEN SkipSpaces(s, i + 1) ELSE i

\* The position after (a\.?\s*m\.?|p\.?\s*m\.?) at q, case-insensitive; 0
\* when it does not match there.
MarkerEnd(s, q) ==
  IF LowerChar(At(s, q)) \notin {"a", "p"} THEN 0
  ELSE LET q1 == IF At(s, q + 1) = "." THEN q + 2 ELSE q + 1
           q2 == SkipSpaces(s, q1)
       IN  IF LowerChar(At(s, q2)) # "m" THEN 0
           ELSE IF At(s, q2 + 1) = "." THEN q2 + 2 ELSE q2 + 1

NoMatch == [matched |-> FALSE, time |-> <<>>, marker |-> <<>>, date |-> <<>>]

\* \d{4}\] at y, after the groups found so far: the time in t1..t3-1, the
\* marker in m1..m2-1 (m2 = 0: the optional group takes no part), the
\* date from d1 on.
MatchYear(s, t1, t3, m1, m2, d1, y) ==
  IF (\A k \in 0..3 : IsDigit(At(s, y + k))) /\ At(s, y + 4) = "]"
  THEN [matched |-> TRUE,
        time    |-> SubSeq(s, t1, t3 - 1),
        marker  |-> IF m2 # 0 THEN SubSeq(s, m1, m2 - 1) ELSE <<>>,
        date    |-> SubSeq(s, d1, y + 3)]
  ELSE NoMatch

\* \/ at d3 (the end of the second \d{1,2}), then the year.
MatchMonthEnd(s, t1, t3, m1, m2, d1, d3) ==
  IF d3 # 0 /\ At(s, d3) = "/"
  THEN MatchYear(s, t1, t3, m1, m2, d1, d3 + 1)
  ELSE NoMatch

\* \/ at d2 (the end of the first \d{1,2}), then \d{1,2}.
MatchDayEnd(s, t1, t3, m1, m2, d1, d2) ==
  IF d2 # 0 /\ At(s, d2) = "/"
  THEN MatchMonthEnd(s, t1, t3, m1, m2, d1, Digits12End(s, d2 + 1))
  ELSE NoMatch

\* ", " at c, then the date.
MatchSeparator(s, t1, t3, m1, m2, c) ==
  IF At(s, c) = "," /\ At(s, c + 1) = " "
  THEN MatchDayEnd(s, t1, t3, m1, m2, c + 2, Digits12End(s, c + 2))
  ELSE NoMatch

\* (?:\s*(marker))? with the marker found (m2 # 0) or not at m1.
MatchMarker(s, t1, t3, m1, m2) ==
  MatchSeparator(s, t1, t3, m1, m2, IF m2 # 0 THEN m2 ELSE t3)

\* \s* has ended at m1, where the marker may stand.
MatchSpaces(s, t1, t3, m1) == MatchMarker(s, t1, t3, m1, MarkerEnd(s, m1))

\* :\d{2} at t2 (the end of the hour's \d{1,2}), then the rest.
MatchHourEnd(s, t1, t2) ==
  IF t2 # 0 /\ At(s, t2) = ":" /\ IsDigit(At(s, t2 + 1))
     /\ IsDigit(At(s, t2 + 2))
  THEN MatchSpaces(s, t1, t2 + 3, SkipSpaces(s, t2 + 3))
  ELSE NoMatch

\* The match that starts at position i, with its three groups.
MatchAt(s, i) ==
  IF At(s, i) = "[" THEN MatchHourEnd(s, i + 1, Digits12End(s, i + 1))
  ELSE NoMatch

\* The match at the least of the start positions.
FirstMatch(s, starts) ==
  IF starts = {} THEN NoMatch
  ELSE MatchAt(s, CHOOSE i \in starts : \A j \in starts : i <= j)

\* dateTimeRegex.exec(s): the leftmost match, or null.
RegexExec(s) == FirstMatch(s, {i \in 1..Len(s) : MatchAt(s, i).matched})

\* str.split(sep): the pieces of s between the occurrences of the
\* character sep.
RECURSIVE Split(_, _)
Split(s, sep) ==
  IF \A k \in 1..Len(s) : s[k] # sep THEN <<s>>
  ELSE LET k == CHOOSE j \in 1..Len(s) :
                  s[j] = sep /\ \A l \in 1..(j - 1) : s[l] # sep
       IN  <<SubSeq(s, 1, k - 1)>> \o Split(SubSeq(s, k + 1, Len(s)), sep)

(***************************************************************************)
(* Date: the time value, in minutes since 1970-01-01 00:00 local time      *)
(***************************************************************************)
\* Day number of January 1st of year y (ECMAScript DayFromYear).
DayFromYear(y) ==
  365 * (y - 1970) + ((y - 1969) \div 4) - ((y - 1901) \div 100)
    + ((y - 1601) \div 400)

IsLeapYear(y) == (y % 4 = 0 /\ y % 100 # 0) \/ y % 400 = 0

\* Days of the year before the month with index m (0 = January).
DaysBeforeMonth(y, m) ==
  LET len == <<31, IF IsLeapYear(y) THEN 29 ELSE 28, 31, 30, 31, 30,
               31, 31, 30, 31, 30, 31>>
      sum[k \in 0..11] == IF k = 0 THEN 0 ELSE sum[k - 1] + len[k]
  IN  sum[m]

\* ECMAScript MakeDay: month is an index and may lie outside 0..11, date
\* may lie outside the month.
MakeDay(year, month, date) ==
  LET ym == year + (month \div 12)
      mn == month % 12
  IN  DayFromYear(ym) + DaysBeforeMonth(ym, mn) + date - 1

\* ECMAScript MakeTime, in minutes: hour and min may exceed 23 and 59.
MakeTime(hour, min) == hour * 60 + min

\* new Date(year, monthIndex, day, hours, minutes)
NewDate(year, monthIndex, day, hours, minutes) ==
  MakeDay(year, monthIndex, day) * 1440 + MakeTime(hours, minutes)

\* The clock: a reading of it is a record of calendar fields.
\* new Date() is the time value of the reading.
CurrentDateTime(now) ==
  NewDate(now.year, now.month - 1, now.day, now.hour, now.minute)

\* new Intl.DateTimeFormat(userLanguage).formatToParts(): the parts of the
\* current date (no argument is passed); the locale orders them and does
\* not change the values of the day, month and year parts.
FormatToParts(locale, now) ==
  [day |-> now.day, month |-> now.month, year |-> now.year]

\* The hour of lines 91-95.
ResolveHours(ampm, hours) ==
  IF ampm = <<"p", "m">> /\ hours < 12 THEN hours + 12
  ELSE IF ampm = <<"a", "m">> /\ hours = 12 THEN 0
  ELSE hours

Undefined == [defined |-> FALSE, time |-> 0]

\* Lines 78-80: the marker without its full stops, in lower case; <<>>
\* stands for null.
NormalizeMarker(marker) ==
  IF marker # <<>> THEN ToLowerCase(StripDots(marker)) ELSE <<>>

\* Lines 84-97, from the pieces of the time, the marker and the parts of
\* today's date.
DateFromParts(parts, ampm, dateParts) ==
  [defined |-> TRUE,
   time    |-> NewDate(dateParts.year, dateParts.month - 1, dateParts.day,
                       ResolveHours(ampm, Number(parts[1])),
                       Number(parts[2]))]

\* Lines 74-97, from the result of dateTimeRegex.exec.
DateFromMatch(matches, locale, now) ==
  IF ~matches.matched THEN Undefined
  ELSE DateFromParts(Split(Trim(matches.time), ":"),
                     NormalizeMarker(matches.marker),
                     FormatToParts(locale, now))

\* getDateFromString(string), with the UI language and the clock it reads.
getDateFromString(string, locale, now) ==
  DateFromMatch(RegexExec(ReplaceEntity(string)), locale, now)

(***************************************************************************)
(* isMessageEditable                                                       *)
(***************************************************************************)
\* What the selectors of isMessageEditable see of a bubble: whether the
\* bubble is an element at all (the caller may pass undefined), whether it
\* holds .copyable-text[data-pre-plain-text], that attribute's value, and
\* whether it holds the poll label and the three icons.
Bubble(defined, container, pre, poll, sent, forwarded, delivered) ==
  [defined |-> defined, container |-> container, pre |-> pre, poll |-> poll,
   sent |-> sent, forwarded |-> forwarded, delivered |-> delivered]

\* 15 * 60 * 1000 milliseconds, in minutes.
EditWindow == 15

\* The comparison of line 134 with an undefined date taken as recent.
IsRecentOrUndefined(currentDateTime, messageDateTime) ==
  \/ ~messageDateTime.defined
  \/ currentDateTime - messageDateTime.time <= EditWindow

\* currentDateTime - messageDateTime <= 15 * 60 * 1000; the difference is
\* NaN when messageDateTime is undefined, and NaN <= x is false.
IsRecent(currentDateTime, messageDateTime) ==
  /\ messageDateTime.defined
  /\ currentDateTime - messageDateTime.time <= EditWindow

\* Line 128 without the test of isPoll.
MarkersRejectNoPoll(isPoll, wasSent, wasForwarded, wasDelivered) ==
  (~wasSent /\ ~wasDelivered) \/ wasForwarded

\* The condition of line 128.
MarkersReject(isPoll, wasSent, wasForwarded, wasDelivered) ==
  (~wasSent /\ ~wasDelivered) \/ wasForwarded \/ isPoll

\* Lines 130-141, from the parsed date and the current date.
WindowCheck(currentDateTime, messageDateTime) ==
  IF ~IsRecent(currentDateTime, messageDateTime)
  THEN [ret |-> FALSE, alerts |-> 1, threw |-> FALSE]
  ELSE [ret |-> TRUE, alerts |-> 0, threw |-> FALSE]

\* isMessageEditable(messageBubble): what it returns, how many times it
\* calls alert(), and whether it throws (a TypeError, on a bubble that is
\* undefined).
isMessageEditable(messageBubble, locale, now) ==
  IF ~messageBubble.defined
  THEN [ret |-> FALSE, alerts |-> 0, threw |-> TRUE]
  ELSE IF ~messageBubble.container
  THEN [ret |-> FALSE, alerts |-> 0, threw |-> FALSE]
  ELSE IF MarkersReject(messageBubble.poll, messageBubble.sent,
                        messageBubble.forwarded, messageBubble.delivered)
  THEN [ret |-> FALSE, alerts |-> 0, threw |-> FALSE]
  ELSE WindowCheck(CurrentDateTime(now),
                   getDateFromString(messageBubble.pre, locale, now))

(***************************************************************************)
(* Inputs: values of data-pre-plain-text, readings of the clock, UI        *)
(* languages                                                               *)
(***************************************************************************)
StrAm1030 == \* "[10:30 AM, 4/15/2023] Me: "
  <<"[", "1", "0", ":", "3", "0", " ", "A", "M", ",", " ", "4", "/", "1", "5",
    "/", "2", "0", "2", "3", "]", " ", "M", "e", ":", " ">>
StrPm245 == \* "[2:45 p.m., 12/31/2022] "
  <<"[", "2", ":", "4", "5", " ", "p", ".", "m", ".", ",", " ", "1", "2", "/",
    "3", "1", "/", "2", "0", "2", "2", "]", " ">>
Str1400 == \* "[14:00, 1/1/2024] "
  <<"[", "1", "4", ":", "0", "0", ",", " ", "1", "/", "1", "/", "2", "0", "2",
    "4", "]", " ">>
Str2400 == \* "[24:00, 1/1/2024] "
  <<"[", "2", "4", ":", "0", "0", ",", " ", "1", "/", "1", "/", "2", "0", "2",
    "4", "]", " ">>
Str1405 == \* "[14:05, 1/2/2024] "
  <<"[", "1", "4", ":", "0", "5", ",", " ", "1", "/", "2", "/", "2", "0", "2",
    "4", "]", " ">>
Str2355 == \* "[23:55, 1/1/2024] "
  <<"[", "2", "3", ":", "5", "5", ",", " ", "1", "/", "1", "/", "2", "0", "2",
    "4", "]", " ">>
StrAm1205 == \* "[12:05<nbsp>a.<nbsp>m., 2/1/2024] "
  <<"[", "1", "2", ":", "0", "5", NBSP, "a", ".", NBSP, "m", ".", ",", " ",
    "2", "/", "1", "/", "2", "0", "2", "4", "]", " ">>
StrPm1200 == \* "[12:00 PM, 1/2/2024] "
  <<"[", "1", "2", ":", "0", "0", " ", "P", "M", ",", " ", "1", "/", "2", "/",
    "2", "0", "2", "4", "]", " ">>
StrPmNoDots == \* "[2:00 p m, 1/2/2024] "
  <<"[", "2", ":", "0", "0", " ", "p", " ", "m", ",", " ", "1", "/", "2", "/",
    "2", "0", "2", "4", "]", " ">>
StrPm1350 == \* "[13:50 pm, 1/2/2024] "
  <<"[", "1", "3", ":", "5", "0", " ", "p", "m", ",", " ", "1", "/", "2", "/",
    "2", "0", "2", "4", "]", " ">>
StrEntity == \* "[1:55&nbsp;PM, 1/2/2024] "
  <<"[", "1", ":", "5", "5", "&", "n", "b", "s", "p", ";", "P", "M", ",", " ",
    "1", "/", "2", "/", "2", "0", "2", "4", "]", " ">>
StrNoSpace == \* "[14:00,1/2/2024] "
  <<"[", "1", "4", ":", "0", "0", ",", "1", "/", "2", "/", "2", "0", "2", "4",
    "]", " ">>
StrPlain == \* "Me: hello"
  <<"M", "e", ":", " ", "h", "e", "l", "l", "o">>

StrSet ==
  {StrAm1030, StrPm245, Str1400, Str2400, Str1405, Str2355, StrAm1205,
   StrPm1200, StrPmNoDots, StrPm1350, StrEntity, StrNoSpace, StrPlain, <<>>}

Clock(y, mo, d, h, mi) ==
  [year |-> y, month |-> mo, day |-> d, hour |-> h, minute |-> mi]

NowSet ==
  {Clock(2024, 1, 2, 14, 10), Clock(2024, 1, 2, 14, 30),
   Clock(2024, 1, 2, 0, 5), Clock(2023, 4, 15, 10, 40),
   Clock(2022, 12, 31, 14, 50), Clock(2024, 2, 1, 0, 10)}

\* en-US writes month/day/year, en-GB day/month/year.
LocaleSet == {"en-US", "en-GB"}

\* The bubbles isMessageEditable is applied to.
BubbleSet ==
  {Bubble(TRUE, c, pre, p, s, f, d) :
     c \in BOOLEAN, pre \in StrSet, p \in BOOLEAN, s \in BOOLEAN,
     f \in BOOLEAN, d \in BOOLEAN}

UndefinedBubble == Bubble(FALSE, FALSE, <<>>, FALSE, FALSE, FALSE, FALSE)

(***************************************************************************)
(* The page and the handler                                                *)
(*                                                                         *)
(* The host page runs on one thread: a task (a key-up event, a rendering   *)
(* of the page, an action of the user) starts only when the microtask      *)
(* queue is empty, and the microtasks (the notification of the mutation    *)
(* observers, the continuation of an await) run in the order they were     *)
(* queued.                                                                 *)
(***************************************************************************)
VARIABLES
  clock,       \* the reading of the clock
  uiLanguage,  \* chrome.i18n.getUILanguage()
  msgs,        \* the .message-out containers, in document order
  dom,         \* the rest of the document that the selectors see
  owed,        \* what the page has been asked to render and has not yet
  invs,        \* the invocations of handleKeyUp, in the order of their events
  obs,         \* the invocations whose waiter has an observer, oldest first
  dirty,       \* the observers that hold mutation records
  mq,          \* the microtask queue: 0 notifies the observers, i resumes i
  pin,         \* the bubble a function is applied to on its own
  pout,        \* and what the function returned
  ppc

vars == <<clock, uiLanguage, msgs, dom, owed, invs, obs, dirty, mq,
          pin, pout, ppc>>

Range(f) == {f[k] : k \in DOMAIN f}

\* An outgoing message: whether it holds the element labelled "You:" (whose
\* parent is the bubble), and the bubble.  msgs holds the kinds of the
\* messages.
MsgKinds == {"recent", "old", "forwarded", "unlabelled"}

Message(kind) ==
  CASE kind = "recent" ->
         [you |-> TRUE,
          bubble |-> Bubble(TRUE, TRUE, Str1405, FALSE, FALSE, FALSE, TRUE)]
    [] kind = "old" ->
         [you |-> TRUE,
          bubble |-> Bubble(TRUE, TRUE, StrPm1350, FALSE, TRUE, FALSE, FALSE)]
    [] kind = "forwarded" ->
         [you |-> TRUE,
          bubble |-> Bubble(TRUE, TRUE, Str1405, FALSE, FALSE, TRUE, TRUE)]
    [] kind = "unlabelled" ->
         [you |-> FALSE,
          bubble |-> Bubble(TRUE, TRUE, Str1405, FALSE, FALSE, FALSE, TRUE)]

SpecClock == Clock(2024, 1, 2, 14, 10)

\* innerText of the composition field
TextSet == {<<>>, <<" ", NBSP>>, <<"h", "i">>}

KeySet == {"ArrowUp", "ArrowDown"}

Machine ==
  [dom |-> dom, owed |-> owed, invs |-> invs, obs |-> obs, dirty |-> dirty,
   mq |-> mq]

Commit(M) ==
  /\ dom' = M.dom
  /\ owed' = M.owed
  /\ invs' = M.invs
  /\ obs' = M.obs
  /\ dirty' = M.dirty
  /\ mq' = M.mq

\* The first element with role textbox, in document order.
FirstTextbox(d) ==
  IF d.composer /\ d.editBox
  THEN (IF d.boxFirst THEN "editBox" ELSE "composer")
  ELSE IF d.composer THEN "composer"
  ELSE IF d.editBox THEN "editBox"
  ELSE "null"

\* root.querySelector(selector): root is a bubble (the number of its
\* message) or the document (0).
QuerySelector(d, selector, root) ==
  CASE selector = "contextMenu" ->
         IF root \in d.ctx THEN "contextMenu" ELSE "null"
    [] selector = "edit" -> IF d.edit THEN "edit" ELSE "null"
    [] selector = "textbox" -> FirstTextbox(d)
    [] selector = "modal" -> IF d.modal THEN "modal" ELSE "null"
    [] selector = "composer" -> IF d.composer THEN "composer" ELSE "null"

\* The observers that get a record of a child-list mutation: those on
\* document.body get the mutations of the whole page, the one on a bubble
\* the mutations inside that bubble (scope: the number of its message, 0
\* outside the bubbles).
Notified(M, scope) ==
  {i \in Range(M.obs) : M.invs[i].pc = "awaitCtx" => M.invs[i].last = scope}

\* A child-list mutation at scope: records are queued, and the microtask
\* that notifies the observers, unless it is queued already.
ChildListMutation(M, scope) ==
  LET n == Notified(M, scope)
  IN  [M EXCEPT !.dirty = @ \cup n,
                !.mq = IF n # {} /\ 0 \notin Range(@) THEN Append(@, 0) ELSE @]

\* The page renders what a synthetic event asked for.
Render(M, what, m, first) ==
  CASE what = "ctx" ->
         ChildListMutation([M EXCEPT !.dom.ctx = @ \cup {m}], m)
    [] what = "menu" ->
         ChildListMutation([M EXCEPT !.dom.edit = TRUE], 0)
    [] what = "dialog" ->
         ChildListMutation([M EXCEPT !.dom.edit = FALSE,
                                     !.dom.editBox = TRUE,
                                     !.dom.modal = TRUE,
                                     !.dom.boxFirst = first], 0)

\* The page's listeners run inside dispatchEvent: they render at once
\* (sync) or leave the rendering to a later task.
React(M, what, m, sync, first) ==
  IF sync THEN Render(M, what, m, first)
  ELSE [M EXCEPT !.owed = @ \cup {[what |-> what, m |-> m]}]

\* The record of a side effect of invocation i: the operation, the element
\* it acts on (with the number of its message), and whether that element
\* is in the document when the operation acts.
Log(M, i, op, el, m) ==
  [M EXCEPT !.invs[i].log =
     Append(@, [op |-> op, el |-> el, m |-> m,
                there |-> CASE el = "contextMenu" -> m \in M.dom.ctx
                            [] el = "edit" -> M.dom.edit
                            [] el = "editBox" -> M.dom.editBox
                            [] el = "composer" -> M.dom.composer
                            [] OTHER -> TRUE])]

SetPc(M, i, pc) == [M EXCEPT !.invs[i].pc = pc]

\* resolve(value) followed by the await of the promise: the continuation
\* of invocation i is queued.
Resolve(M, i, value) ==
  [M EXCEPT !.invs[i].val = value, !.mq = Append(@, i)]

\* new MutationObserver(...) and observer.observe(...)
Observe(M, i) == [M EXCEPT !.obs = Append(@, i)]

\* A disconnect that drops every observer of the page.
DisconnectAll(M, i) == [M EXCEPT !.obs = <<>>, !.dirty = {}]

\* observer.disconnect()
Disconnect(M, i) ==
  [M EXCEPT !.obs = SelectSeq(@, LAMBDA j : j # i), !.dirty = @ \ {i}]

\* getElementWhenExists with the observer registered before the first
\* query, and left registered when the element is found at once.
getElementWhenExistsObserveFirst(M, i, selector, parentElement) ==
  LET found == QuerySelector(M.dom, selector, parentElement)
  IN  IF found # "null" THEN Resolve(Observe(M, i), i, found)
      ELSE Observe(M, i)

\* getElementWhenExists(selector, parentElement), called by invocation i.
getElementWhenExists(M, i, selector, parentElement) ==
  LET found == QuerySelector(M.dom, selector, parentElement)
  IN  IF found # "null" THEN Resolve(M, i, found) ELSE Observe(M, i)

\* waitForElementToDisappear(selector), called by invocation i.
waitForElementToDisappear(M, i, selector) ==
  IF QuerySelector(M.dom, selector, 0) = "null"
  THEN Resolve(M, i, "undefined")
  ELSE Observe(M, i)

\* The selector and the root of the waiter invocation i is suspended at.
WaitSelector(pc) ==
  CASE pc = "awaitCtx" -> "contextMenu"
    [] pc = "awaitEdit" -> "edit"
    [] pc = "awaitText" -> "textbox"
    [] pc = "awaitModal" -> "modal"

WaitRoot(inv) == IF inv.pc = "awaitCtx" THEN inv.last ELSE 0

\* An observer callback that never resolves.
ObserverCallbackNever(M, i) == M

\* An observer callback that resolves at every notification, whether the
\* selector matches or not.
ObserverCallbackAlways(M, i) ==
  Disconnect(Resolve(M, i, IF M.invs[i].pc = "awaitModal" THEN "undefined"
                           ELSE IF M.invs[i].pc = "awaitText" THEN "composer"
                           ELSE WaitSelector(M.invs[i].pc)), i)

\* The callback of the observer of invocation i's waiter.
ObserverCallback(M, i) ==
  LET inv == M.invs[i]
      found == QuerySelector(M.dom, WaitSelector(inv.pc), WaitRoot(inv))
  IN  IF inv.pc = "awaitModal"
      THEN (IF found = "null"
            THEN Disconnect(Resolve(M, i, "undefined"), i)
            ELSE M)
      ELSE (IF found # "null"
            THEN Disconnect(Resolve(M, i, found), i)
            ELSE M)

\* A notification that runs the callback of every observer, whether it
\* holds records or not.
RECURSIVE NotifyEveryFrom(_, _, _, _)
NotifyEveryFrom(M, order, records, k) ==
  IF k > Len(order) THEN M
  ELSE NotifyEveryFrom(ObserverCallback(M, order[k]), order, records, k + 1)

\* Notify mutation observers: each observer that holds records has its
\* callback run, in the order the observers were created.
RECURSIVE NotifyFrom(_, _, _, _)
NotifyFrom(M, order, records, k) ==
  IF k > Len(order) THEN M
  ELSE NotifyFrom(IF order[k] \in records
                  THEN ObserverCallback(M, order[k])
                  ELSE M,
                  order, records, k + 1)

NotifyMutationObservers(M) ==
  NotifyFrom([M EXCEPT !.dirty = {}], M.obs, M.dirty, 1)

(***************************************************************************)
(* handleKeyUp                                                             *)
(***************************************************************************)
\* An invocation: its event, where it stands, the elements it holds
\* (messageInputField, lastSentMessage, the value of its last await) and
\* the side effects it has had.
NewInvocation(event) ==
  [event |-> event, pc |-> "start", field |-> "null", last |-> 0,
   val |-> "null", log |-> <<>>]

\* Gate 2 without the test of document.activeElement.
FieldGateNoFocus(messageInputField, target, activeElement, innerText) ==
  /\ messageInputField = target
  /\ Trim(innerText) = <<>>

\* Gate 2, lines 156-166.
FieldGate(messageInputField, target, activeElement, innerText) ==
  /\ messageInputField = target
  /\ messageInputField = activeElement
  /\ Trim(innerText) = <<>>

\* [...document.querySelectorAll(".message-out")].at(-1): the number of
\* the last outgoing message, 0 for undefined.
LastSentMessage(messages) == Len(messages)

\* lastSentMessage.querySelector("[aria-label='You:' i]")?.parentElement
MessageBubble(message) ==
  IF message.you THEN message.bubble ELSE UndefinedBubble

\* Lines 176-181 with the mouseover dispatched a second time.
StepHoverTwice(M, i, last, sync) ==
  LET M1 == Log(Log(M, i, "mouseover", "bubble", last),
                i, "mouseover", "bubble", last)
      M2 == IF last \notin M1.dom.ctx
            THEN React(M1, "ctx", last, sync, FALSE)
            ELSE M1
  IN  getElementWhenExists(SetPc(M2, i, "awaitCtx"), i, "contextMenu", last)

\* Lines 176-181: the mouseover on the bubble and the first await.
StepHover(M, i, last, sync) ==
  LET M1 == Log(M, i, "mouseover", "bubble", last)
      M2 == IF last \notin M1.dom.ctx
            THEN React(M1, "ctx", last, sync, FALSE)
            ELSE M1
  IN  getElementWhenExists(SetPc(M2, i, "awaitCtx"), i, "contextMenu", last)

\* Lines 174-181: gate 5 with what isMessageEditable did, then the
\* sequence.
EligibilityGate(M, i, last, editable, sync) ==
  IF editable.threw THEN SetPc(M, i, "throwBubble")
  ELSE IF ~editable.ret
  THEN SetPc(IF editable.alerts = 1 THEN Log(M, i, "alert", "window", 0)
             ELSE M, i, "retEditable")
  ELSE StepHover(M, i, last, sync)

\* Lines 168-174: gates 3 and 4 on the last outgoing message.
MessageGate(M, i, lastSentMessage, sync) ==
  IF lastSentMessage = 0 THEN SetPc(M, i, "throwLast")
  ELSE EligibilityGate([M EXCEPT !.invs[i].last = lastSentMessage], i,
                       lastSentMessage,
                       isMessageEditable(MessageBubble(Message(msgs[lastSentMessage])),
                                         uiLanguage, clock),
                       sync)

\* Lines 154-166: gate 2 on the composition field.
InputGate(M, i, messageInputField, event, sync) ==
  IF messageInputField = "null" THEN SetPc(M, i, "throwField")
  ELSE IF ~FieldGate(messageInputField, event.target, M.dom.active,
                      M.dom.text)
  THEN SetPc(M, i, "retField")
  ELSE MessageGate([M EXCEPT !.invs[i].field = messageInputField], i,
                   LastSentMessage(msgs), sync)

\* handleKeyUp without the key filter of line 152.
handleKeyUpAnyKey(M, i, event, sync) ==
  InputGate(M, i, QuerySelector(M.dom, "composer", 0), event, sync)

\* handleKeyUp(event) up to its first await or its end, as invocation i.
handleKeyUp(M, i, event, sync) ==
  IF event.key # "ArrowUp" THEN SetPc(M, i, "retKey")
  ELSE InputGate(M, i, QuerySelector(M.dom, "composer", 0), event, sync)

\* Lines 183-187: contextMenuButton.click() and the second await.
StepContextMenu(M, i, sync) ==
  LET inv == M.invs[i]
      M1 == Log(M, i, "click", inv.val, inv.last)
      M2 == IF inv.last \in M1.dom.ctx /\ ~M1.dom.edit
            THEN React(M1, "menu", 0, sync, FALSE)
            ELSE M1
  IN  getElementWhenExists(SetPc(M2, i, "awaitEdit"), i, "edit", 0)

\* Lines 189-191: editButton.click() and the third await.
StepEdit(M, i, sync, first) ==
  LET inv == M.invs[i]
      M1 == Log(M, i, "click", inv.val, 0)
      M2 == IF M1.dom.edit /\ ~M1.dom.editBox
            THEN React(M1, "dialog", 0, sync, first)
            ELSE M1
  IN  getElementWhenExists(SetPc(M2, i, "awaitText"), i, "textbox", 0)

\* element.focus(): the element gets the focus when it is in the document.
Focus(M, el) ==
  IF (el = "editBox" /\ M.dom.editBox) \/ (el = "composer" /\ M.dom.composer)
  THEN [M EXCEPT !.dom.active = el]
  ELSE M

\* Lines 193-195: editTextField.focus() and the fourth await.
StepFocus(M, i) ==
  LET inv == M.invs[i]
      M1 == Focus(Log(M, i, "focus", inv.val, 0), inv.val)
  IN  waitForElementToDisappear(SetPc(M1, i, "awaitModal"), i, "modal")

\* Lines 197-199: the mouseout on the last sent message, the focus on the
\* composition field.
StepFinish(M, i) ==
  LET inv == M.invs[i]
      M1 == Log(M, i, "mouseout", "message", inv.last)
      M2 == Focus(Log(M1, i, "focus", inv.field, 0), inv.field)
  IN  SetPc(M2, i, "done")

\* The continuation of invocation i after its await.
Resume(M, i, sync, first) ==
  LET pc == M.invs[i].pc
  IN  CASE pc = "awaitCtx" -> StepContextMenu(M, i, sync)
        [] pc = "awaitEdit" -> StepEdit(M, i, sync, first)
        [] pc = "awaitText" -> StepFocus(M, i)
        [] pc = "awaitModal" -> StepFinish(M, i)

(***************************************************************************)
(* Actions                                                                 *)
(***************************************************************************)
Fixed == UNCHANGED <<clock, uiLanguage, pin, pout, ppc>>

\* The elements a key-up event can have as its target.
Targets(d) ==
  {"body"} \cup (IF d.composer THEN {"composer"} ELSE {})
           \cup (IF d.editBox THEN {"editBox"} ELSE {})

\* A key-up event reaches the listener of line 202.
KeyUp(key, target, sync) ==
  /\ ppc = "page"
  /\ mq = <<>>
  /\ Len(invs) < MaxInv
  /\ target \in Targets(dom)
  /\ Commit(handleKeyUp(
       [Machine EXCEPT
          !.invs = Append(@, NewInvocation([key |-> key, target |-> target]))],
       Len(invs) + 1, [key |-> key, target |-> target], sync))
  /\ UNCHANGED msgs
  /\ Fixed

\* The microtask at the head of the queue notifies the mutation observers.
Notify ==
  /\ mq # <<>>
  /\ Head(mq) = 0
  /\ Commit(NotifyMutationObservers([Machine EXCEPT !.mq = Tail(@)]))
  /\ UNCHANGED msgs
  /\ Fixed

\* The microtask at the head of the queue resumes an invocation.
Continue(sync, first) ==
  /\ mq # <<>>
  /\ Head(mq) # 0
  /\ Commit(Resume([Machine EXCEPT !.mq = Tail(@)], Head(mq), sync, first))
  /\ UNCHANGED msgs
  /\ Fixed

\* The page renders, in a task of its own, something it owes, by adding
\* nodes.
HostRender(o, first) ==
  /\ mq = <<>>
  /\ o \in owed
  /\ Commit(Render([Machine EXCEPT !.owed = @ \ {o}], o.what, o.m, first))
  /\ UNCHANGED msgs
  /\ Fixed

\* The page makes an element that is in the tree already match the
\* selector by setting an attribute: no child-list record is queued.
HostSetAttribute(o) ==
  /\ mq = <<>>
  /\ o \in owed
  /\ o.what \in {"ctx", "menu"}
  /\ dom' = IF o.what = "ctx" THEN [dom EXCEPT !.ctx = @ \cup {o.m}]
            ELSE [dom EXCEPT !.edit = TRUE]
  /\ owed' = owed \ {o}
  /\ UNCHANGED <<msgs, invs, obs, dirty, mq>>
  /\ Fixed

\* The animation of the dialog ends: the attribute that the modal selector
\* matches is cleared; no child-list record is queued.
HostAnimationEnd ==
  /\ mq = <<>>
  /\ dom.modal
  /\ dom' = [dom EXCEPT !.modal = FALSE]
  /\ UNCHANGED <<msgs, owed, invs, obs, dirty, mq>>
  /\ Fixed

\* The user ends the edit: the page removes the dialog.
HostCloseDialog ==
  /\ mq = <<>>
  /\ dom.editBox
  /\ Commit(ChildListMutation(
       [Machine EXCEPT !.dom.editBox = FALSE, !.dom.modal = FALSE,
                       !.dom.boxFirst = FALSE,
                       !.dom.active = IF @ = "editBox" THEN "body" ELSE @],
       0))
  /\ UNCHANGED msgs
  /\ Fixed

\* The user moves the focus.
UserFocus(el) ==
  /\ ppc = "page"
  /\ mq = <<>>
  /\ el \in Targets(dom)
  /\ el # dom.active
  /\ dom' = [dom EXCEPT !.active = el]
  /\ UNCHANGED <<msgs, owed, invs, obs, dirty, mq>>
  /\ Fixed

\* A message is sent and delivered: the page adds its container after the
\* others.
NewMessage ==
  /\ ppc = "page"
  /\ mq = <<>>
  /\ Len(msgs) < MaxMsgs
  /\ msgs' = Append(msgs, "recent")
  /\ Commit(ChildListMutation(Machine, 0))
  /\ Fixed

IdleDom(c, t, a) ==
  [composer |-> c, text |-> t, active |-> a, ctx |-> {}, edit |-> FALSE,
   editBox |-> FALSE, modal |-> FALSE, boxFirst |-> FALSE]

NoResult ==
  [fn |-> "none", date |-> Undefined, ret |-> FALSE, alerts |-> 0]

Init ==
  /\ clock = SpecClock
  /\ uiLanguage = "en-US"
  /\ msgs \in {<<>>} \cup {<<k>> : k \in MsgKinds}
  /\ dom \in {IdleDom(TRUE, t, a) : t \in TextSet, a \in {"composer", "body"}}
             \cup {IdleDom(FALSE, <<>>, "body")}
  /\ owed = {}
  /\ invs = <<>>
  /\ obs = <<>>
  /\ dirty = {}
  /\ mq = <<>>
  /\ pin = UndefinedBubble
  /\ pout = NoResult
  /\ ppc = "page"

Next ==
  \/ \E key \in KeySet, target \in {"composer", "editBox", "body"},
        sync \in BOOLEAN : KeyUp(key, target, sync)
  \/ Notify
  \/ \E sync \in BOOLEAN, first \in BOOLEAN : Continue(sync, first)
  \/ \E o \in owed, first \in BOOLEAN : HostRender(o, first)
  \/ \E o \in owed : HostSetAttribute(o)
  \/ HostAnimationEnd
  \/ HostCloseDialog
  \/ \E el \in {"composer", "editBox", "body"} : UserFocus(el)
  \/ NewMessage

Spec == Init /\ [][Next]_vars

(***************************************************************************)
(* The two functions on their own: every bubble of BubbleSet, at every     *)
(* reading of the clock of NowSet, in every language of LocaleSet.         *)
(***************************************************************************)
PageIdle ==
  /\ msgs = <<>>
  /\ dom = IdleDom(FALSE, <<>>, "body")
  /\ owed = {}
  /\ invs = <<>>
  /\ obs = <<>>
  /\ dirty = {}
  /\ mq = <<>>

InitPure ==
  /\ clock \in NowSet
  /\ uiLanguage \in LocaleSet
  /\ pin \in BubbleSet
  /\ pout = NoResult
  /\ ppc = "ready"
  /\ PageIdle

\* getDateFromString(pin.pre) is called.
CallGetDate ==
  /\ ppc = "ready"
  /\ pout' = [fn |-> "getDateFromString",
              date |-> getDateFromString(pin.pre, uiLanguage, clock),
              ret |-> FALSE, alerts |-> 0]
  /\ ppc' = "returned"
  /\ UNCHANGED <<clock, uiLanguage, msgs, dom, owed, invs, obs, dirty, mq, pin>>

\* isMessageEditable(pin) is called.
CallIsEditable ==
  /\ ppc = "ready"
  /\ LET r == isMessageEditable(pin, uiLanguage, clock)
     IN  pout' = [fn |-> "isMessageEditable", date |-> Undefined,
                  ret |-> r.ret, alerts |-> r.alerts]
  /\ ppc' = "returned"
  /\ UNCHANGED <<clock, uiLanguage, msgs, dom, owed, invs, obs, dirty, mq, pin>>

NextPure == CallGetDate \/ CallIsEditable

SpecPure == InitPure /\ [][NextPure]_vars

(***************************************************************************)
(* The same page under the provisos of termination: every element that is  *)
(* awaited appears by a child-list mutation (the page renders what it      *)
(* owes, and never by an attribute alone), the modal indicator goes        *)
(* while it is present, and the event loop runs the queued microtasks.     *)
(***************************************************************************)
ModalGoes == dom.modal /\ (HostAnimationEnd \/ HostCloseDialog)

NextLive ==
  \/ \E key \in KeySet, target \in {"composer", "editBox", "body"},
        sync \in BOOLEAN : KeyUp(key, target, sync)
  \/ Notify
  \/ \E sync \in BOOLEAN, first \in BOOLEAN : Continue(sync, first)
  \/ \E o \in owed, first \in BOOLEAN : HostRender(o, first)
  \/ HostAnimationEnd
  \/ HostCloseDialog
  \/ \E el \in {"composer", "editBox", "body"} : UserFocus(el)
  \/ NewMessage

SpecLive ==
  /\ Init
  /\ [][NextLive]_vars
  /\ WF_vars(Notify)
  /\ WF_vars(\E sync \in BOOLEAN, first \in BOOLEAN : Continue(sync, first))
  /\ WF_vars(\E o \in owed, first \in BOOLEAN : HostRender(o, first))
  /\ WF_vars(ModalGoes)

(***************************************************************************)
(* Properties                                                              *)
(***************************************************************************)
ReturnPcs == {"retKey", "retField", "retEditable", "done"}
ThrowPcs == {"throwField", "throwLast", "throwBubble"}
SequencePcs == {"awaitCtx", "awaitEdit", "awaitText", "awaitModal", "done"}

\* The side effects an invocation has had when it stands at pc.
StepsDone(pc) ==
  CASE pc = "awaitCtx" -> 1
    [] pc = "awaitEdit" -> 2
    [] pc = "awaitText" -> 3
    [] pc = "awaitModal" -> 4
    [] pc = "done" -> 6

Effect(op, el, m) == [op |-> op, el |-> el, m |-> m, there |-> TRUE]

\* The six side effects of the sequence on the last outgoing message.
ExpectedLog(last) ==
  <<Effect("mouseover", "bubble", last), Effect("click", "contextMenu", last),
    Effect("click", "edit", 0), Effect("focus", "editBox", 0),
    Effect("mouseout", "message", last), Effect("focus", "composer", 0)>>

\* Invocation i has had no side effect and holds no observer.
Quiet(i) ==
  /\ invs[i].log = <<>>
  /\ i \notin Range(obs)
  /\ i \notin Range(mq)

\* The step leaves the page as it is.
PageUntouched ==
  /\ dom' = dom
  /\ msgs' = msgs
  /\ owed' = owed
  /\ obs' = obs
  /\ dirty' = dirty
  /\ mq' = mq

\* The step is the dispatch of the event of invocation i.
Dispatched(i) == i \in DOMAIN invs' /\ i \notin DOMAIN invs

\* The event of invocation i, dispatched in this step, passes gates 1 and
\* 2 in the state it is dispatched in.
PassesInputGates(i) ==
  /\ Dispatched(i)
  /\ invs'[i].event.key = "ArrowUp"
  /\ dom.composer
  /\ invs'[i].event.target = "composer"
  /\ dom.active = "composer"
  /\ Trim(dom.text) = <<>>

\* C1: one Up Arrow key-up that passes the gates has, in this order and
\* once each, the side effects mouseover on the bubble, click on the
\* context-menu trigger, click on the edit action, focus on the edit text
\* surface, mouseout on the last outgoing message, focus on the
\* composition field, each on an element that is in the document.
C1_SequenceInOrder ==
  Len(invs) = 1 =>
    \A i \in DOMAIN invs :
      invs[i].pc \in SequencePcs =>
        invs[i].log = SubSeq(ExpectedLog(invs[i].last), 1,
                             StepsDone(invs[i].pc))

\* C2: a key-up event whose key is not ArrowUp changes nothing in the
\* page when it is dispatched, whatever the page holds, and its invocation
\* never has a side effect nor an observer.
C2_OtherKeyNoEffect ==
  [][\A i \in DOMAIN invs' :
       invs'[i].event.key # "ArrowUp" =>
         /\ Quiet(i)'
         /\ invs'[i].pc \in ReturnPcs
         /\ Dispatched(i) => PageUntouched]_vars

C2_Witness ==
  \E i \in DOMAIN invs :
    /\ invs[i].event = [key |-> "ArrowDown", target |-> "composer"]
    /\ dom.active = "composer"
    /\ Trim(dom.text) = <<>>
    /\ msgs # <<>>
    /\ msgs[Len(msgs)] = "recent"
    /\ Len(invs) = 1
    /\ invs[i].log = <<>>

\* C3: an Up Arrow key-up dispatched while the composition field exists
\* and is not the target, or is not the focused element, or holds text
\* that is not blank, changes nothing in the page, and its invocation
\* never has a side effect nor an observer.
C3_FieldGateNoEffect ==
  [][/\ \A i \in DOMAIN invs' :
          ( /\ Dispatched(i)
            /\ invs'[i].event.key = "ArrowUp"
            /\ dom.composer
            /\ \/ invs'[i].event.target # "composer"
               \/ dom.active # "composer"
               \/ Trim(dom.text) # <<>> )
          => (PageUntouched /\ invs'[i].pc = "retField")
     /\ \A i \in DOMAIN invs' : invs'[i].pc = "retField" => Quiet(i)']_vars

C3_Witness ==
  \E i \in DOMAIN invs :
    /\ invs[i].event = [key |-> "ArrowUp", target |-> "composer"]
    /\ invs[i].pc = "retField"
    /\ dom.active = "composer"
    /\ Trim(dom.text) # <<>>
    /\ msgs # <<>>
    /\ msgs[Len(msgs)] = "recent"
    /\ invs[i].log = <<>>

\* The date and time written in a metadata string: its date part read as
\* month/day/year, or day/month/year in a language that writes the day
\* first; its time part as the code reads it.
WrittenParts(date, locale) ==
  IF locale = "en-GB"
  THEN [day |-> Number(date[1]), month |-> Number(date[2]),
        year |-> Number(date[3])]
  ELSE [day |-> Number(date[2]), month |-> Number(date[1]),
        year |-> Number(date[3])]

WrittenDate(matches, locale) ==
  IF ~matches.matched THEN Undefined
  ELSE DateFromParts(Split(Trim(matches.time), ":"),
                     NormalizeMarker(matches.marker),
                     WrittenParts(Split(matches.date, "/"), locale))

\* The bubble passes the checks that come before the time window.
PassesMarkers(b) ==
  b.container /\ (b.sent \/ b.delivered) /\ ~b.forwarded /\ ~b.poll

\* The minutes from the date and time written in the string to now.
WrittenElapsed(string, locale, now) ==
  CurrentDateTime(now) - WrittenDate(RegexExec(ReplaceEntity(string)), locale).time

\* C4: for a bubble that passes the marker checks, isMessageEditable
\* returns false with one notification when the time from the written
\* date and time to now exceeds 15 minutes, and true with no notification
\* when it does not.
C4_WindowFromWrittenDate ==
  ( /\ ppc = "returned"
    /\ pout.fn = "isMessageEditable"
    /\ PassesMarkers(pin)
    /\ RegexExec(ReplaceEntity(pin.pre)).matched )
  => IF WrittenElapsed(pin.pre, uiLanguage, clock) > 15
     THEN ~pout.ret /\ pout.alerts = 1
     ELSE pout.ret /\ pout.alerts = 0

C6_NoMessageSilentAbort ==
  [][\A i \in DOMAIN invs' :
       (PassesInputGates(i) /\ msgs = <<>>)
       => (invs'[i].pc \in ReturnPcs /\ PageUntouched /\ Quiet(i)')]_vars

\* C7: an Up Arrow key-up that passes gates 1 to 3 while the last outgoing
\* message holds no element labelled as the user's ends normally, with
\* nothing changed in the page.
C7_NoBubbleAbort ==
  [][\A i \in DOMAIN invs' :
       ( /\ PassesInputGates(i)
         /\ msgs # <<>>
         /\ ~Message(msgs[Len(msgs)]).you )
       => (invs'[i].pc \in ReturnPcs /\ PageUntouched /\ Quiet(i)')]_vars

\* C8: getDateFromString returns the date written in the string (read in
\* the order of the UI language) with the time written in it, and no
\* match for a string without the bracketed pattern.
C8_DateAsWritten ==
  (ppc = "returned" /\ pout.fn = "getDateFromString")
  => pout.date = WrittenDate(RegexExec(ReplaceEntity(pin.pre)), uiLanguage)

\* The page still owes the dialog of a click on the edit action.
DialogOwed == [what |-> "dialog", m |-> 0] \in owed

\* C9: the mouseout of step 6 and the focus of step 7 are performed only
\* in a state where no element matches the modal selector, and (for an
\* invocation alone) only when the dialog that its click on the edit
\* action asked for has been shown.
C9_FinishAfterModal ==
  [][\A i \in DOMAIN invs :
       (invs[i].pc = "awaitModal" /\ invs'[i].pc = "done")
       => (~dom.modal /\ (Len(invs) = 1 => ~DialogOwed))]_vars

Terminal(i) == i \in DOMAIN invs /\ invs[i].pc \in ReturnPcs \cup ThrowPcs

\* C10: every invocation reaches a terminal state.
C10_Terminates ==
  \A i \in 1..MaxInv : (i \in DOMAIN invs) ~> Terminal(i)

\* Invocation i is suspended at step 5 while no element matches the modal
\* selector and no child-list mutation has come since it stopped matching.
IndicatorClearedUnseen(i) ==
  /\ i \in DOMAIN invs
  /\ invs[i].pc = "awaitModal"
  /\ i \in Range(obs)
  /\ i \notin dirty
  /\ ~dom.modal

\* C10, amended: every invocation reaches a terminal state, or is
\* suspended at step 5 with the modal indicator cleared by a change of
\* attribute that no child-list mutation has followed.
C10_TerminatesOrUnseen ==
  \A i \in 1..MaxInv :
    (i \in DOMAIN invs) ~> (Terminal(i) \/ IndicatorClearedUnseen(i))

C10_Witness ==
  \E i \in DOMAIN invs :
    /\ invs[i].pc = "done"
    /\ Len(invs[i].log) = 6
    /\ invs[i].log[4].el = "editBox"
    /\ ~dom.editBox
    /\ obs = <<>>
    /\ owed = {}

\* The operations of a log, in order.
Ops(log) == [k \in DOMAIN log |-> log[k].op]

\* The operations of the sequence, in the order of lines 176-199.
SequenceOps == <<"mouseover", "click", "click", "focus", "mouseout", "focus">>

\* C11: in every state, overlapping invocations included, the operations
\* an invocation has performed are the notification alone, or a prefix of
\* the six operations of the sequence with no notification: no operation
\* is performed twice for one event.
C11_AtMostOnce ==
  \A i \in DOMAIN invs :
    \/ Ops(invs[i].log) = <<"alert">>
    \/ /\ Len(invs[i].log) <= 6
       /\ Ops(invs[i].log) = SubSeq(SequenceOps, 1, Len(invs[i].log))

C11_Witness ==
  /\ Len(invs) = 2
  /\ invs[1].pc = "awaitModal"
  /\ Len(invs[1].log) = 4
  /\ invs[2].pc = "awaitEdit"
  /\ Len(invs[2].log) = 2

AwaitPcs == {"awaitCtx", "awaitEdit", "awaitText", "awaitModal"}

\* The place an invocation resumes to.
NextPc(pc) ==
  CASE pc = "awaitCtx" -> "awaitEdit"
    [] pc = "awaitEdit" -> "awaitText"
    [] pc = "awaitText" -> "awaitModal"
    [] pc = "awaitModal" -> "done"

\* Invocation j, suspended, stays as it is in this step or runs its next
\* step, with the side effects of that step added to those it has had.
StaysOrAdvances(j) ==
  \/ invs'[j] = invs[j]
  \/ /\ invs'[j].pc = invs[j].pc
     /\ invs'[j].log = invs[j].log
  \/ /\ invs'[j].pc = NextPc(invs[j].pc)
     /\ Len(invs'[j].log) = StepsDone(invs'[j].pc)
     /\ SubSeq(invs'[j].log, 1, Len(invs[j].log)) = invs[j].log

\* C12: an Up Arrow key-up dispatched while another invocation is
\* suspended in step 2 or 3, the composition field empty and focused and
\* the last message eligible, starts its own sequence and leaves every
\* other invocation as it is; and in every step a suspended invocation
\* keeps its observer or its queued continuation, and either stays or runs
\* its next step: none is cancelled or aborted.
C12_OverlappingSequences ==
  [][/\ \A i \in DOMAIN invs' :
          ( /\ PassesInputGates(i)
            /\ msgs # <<>>
            /\ msgs[Len(msgs)] = "recent"
            /\ \E j \in DOMAIN invs : invs[j].pc \in {"awaitCtx", "awaitEdit"} )
          => /\ invs'[i].pc = "awaitCtx"
             /\ Ops(invs'[i].log) = <<"mouseover">>
             /\ \A j \in DOMAIN invs :
                  /\ invs'[j] = invs[j]
                  /\ j \in Range(obs) => j \in Range(obs')
     /\ \A j \in DOMAIN invs : invs[j].pc \in AwaitPcs => StaysOrAdvances(j)
     /\ \A j \in DOMAIN invs' :
          invs'[j].pc \in AwaitPcs => (j \in Range(obs') \/ j \in Range(mq'))]_vars

C12_Witness ==
  /\ Len(invs) = 2
  /\ invs[1].pc = "awaitEdit"
  /\ invs[2].pc = "awaitCtx"
  /\ 1 \in Range(obs)
  /\ 2 \in Range(obs)
  /\ dom.active = "composer"

\* What invocation i waits for holds in the document.
Awaited(i) ==
  CASE invs[i].pc = "awaitCtx" -> invs[i].last \in dom.ctx
    [] invs[i].pc = "awaitEdit" -> dom.edit
    [] invs[i].pc = "awaitText" -> dom.composer \/ dom.editBox
    [] invs[i].pc = "awaitModal" -> ~dom.modal
    [] OTHER -> FALSE

\* C13: an invocation suspended on an observer stays exactly as it is (no
\* side effect, no notification, no error, no completion) in every step,
\* except a step taken while what it waits for holds in the document,
\* which queues its continuation; while the awaited element is absent (or
\* the modal indicator present) it stays suspended at that step.
C13_StallsWhileAbsent ==
  [][\A i \in DOMAIN invs :
       i \in Range(obs) =>
         /\ invs[i].pc \in AwaitPcs
         /\ invs'[i].pc = invs[i].pc
         /\ invs'[i].log = invs[i].log
         /\ ~Awaited(i) => (invs'[i] = invs[i] /\ i \in Range(obs')
                            /\ i \notin Range(mq'))]_vars

C13_Witness ==
  \E i \in DOMAIN invs :
    /\ invs[i].pc = "awaitModal"
    /\ i \in Range(obs)
    /\ dom.modal
    /\ Len(invs[i].log) = 4
    /\ Len(msgs) > invs[i].last
    /\ mq = <<>>
    /\ dirty = {}

\* C14: the element focused in step 4 is the text surface of the edit
\* dialog, in the document when it is focused, never the composition
\* field.
C14_FocusEditSurface ==
  \A i \in DOMAIN invs :
    Len(invs[i].log) >= 4 =>
      /\ invs[i].log[4].op = "focus"
      /\ invs[i].log[4].el = "editBox"
      /\ invs[i].log[4].there

\* The waiter of invocation i has not completed: the invocation is at an
\* await and its continuation is not queued.
Pending(i) == invs[i].pc \in AwaitPcs /\ i \notin Range(mq)

\* The number of places of a sequence that hold x.
Occurrences(seq, x) == Cardinality({k \in DOMAIN seq : seq[k] = x})

\* C15: in every state the waiter of an invocation has an observer
\* registered if and only if it is pending, it has at most one observer,
\* and it has completed at most once.
C15_ObserverIffPending ==
  \A i \in DOMAIN invs :
    /\ i \in Range(obs) <=> Pending(i)
    /\ Occurrences(obs, i) <= 1
    /\ Occurrences(mq, i) <= 1
    /\ i \in dirty => i \in Range(obs)

C15_Witness ==
  /\ Len(invs) = 2
  /\ obs = <<1>>
  /\ mq = <<2>>
  /\ invs[1].pc = "awaitEdit"
  /\ invs[2].pc = "awaitCtx"

\* The step changes an attribute of an element that is in the tree and
\* adds or removes no node.
AttributeOnly == (\E o \in owed : HostSetAttribute(o)) \/ HostAnimationEnd

\* C16: a step that only changes an attribute completes no waiter and
\* gives no observer a record; a pending Element Waiter completes only in
\* a notification for which its observer holds records of a child-list
\* mutation under its root.
C16_AttributeOnlyUnseen ==
  [][/\ AttributeOnly =>
          (invs' = invs /\ obs' = obs /\ mq' = mq /\ dirty' = dirty)
     /\ \A i \in DOMAIN invs :
          ( /\ i \in Range(obs)
            /\ invs[i].pc \in {"awaitCtx", "awaitEdit", "awaitText"}
            /\ \/ i \notin Range(obs')
               \/ i \in Range(mq')
               \/ invs'[i] # invs[i] )
          => (i \in dirty /\ mq # <<>> /\ Head(mq) = 0)]_vars

C16_Witness ==
  \E i \in DOMAIN invs :
    /\ invs[i].pc = "awaitCtx"
    /\ i \in Range(obs)
    /\ invs[i].last \in dom.ctx
    /\ Len(msgs) > invs[i].last
    /\ mq = <<>>
    /\ dirty = {}

\* C17: an Up Arrow key-up dispatched in a document with no composition
\* field ends normally, with nothing changed in the page.
C17_NoComposerIgnored ==
  [][\A i \in DOMAIN invs' :
       ( /\ Dispatched(i)
         /\ invs'[i].event.key = "ArrowUp"
         /\ ~dom.composer )
       => (invs'[i].pc \in ReturnPcs /\ PageUntouched /\ Quiet(i)')]_vars

\* The result of the regular expression on the string getDateFromString
\* was called with.
Matched == RegexExec(ReplaceEntity(pin.pre))

\* The meridiem of a matched marker: its first letter, in lower case.
Meridiem(marker) ==
  IF marker = <<>> THEN "none"
  ELSE IF LowerChar(marker[1]) = "p" THEN "pm"
  ELSE "am"

\* The hour the rule gives to the written hour H.
RuleHours(meridiem, H) ==
  CASE meridiem = "pm" -> IF H = 12 THEN 12 ELSE H + 12
    [] meridiem = "am" -> IF H = 12 THEN 0 ELSE H
    [] OTHER -> H

\* The hour and the minute written in a matched time.
WrittenTime(time) ==
  LET parts == Split(Trim(time), ":")
  IN  [hours |-> Number(parts[1]), minutes |-> Number(parts[2])]

\* Today at the given hour and minute.
TodayAt(now, hours, minutes) ==
  NewDate(now.year, now.month - 1, now.day, hours, minutes)

\* C18: for every matched time H:MM the result of getDateFromString has
\* the hour H+12 with a pm marker unless H is 12 (then 12), the hour 0
\* with an am marker when H is 12 and H otherwise, the hour H with no
\* marker, and the minute MM.
C18_HourRule ==
  ( /\ ppc = "returned"
    /\ pout.fn = "getDateFromString"
    /\ Matched.matched )
  => /\ pout.date.defined
     /\ pout.date.time =
          TodayAt(clock,
                  RuleHours(Meridiem(Matched.marker),
                            WrittenTime(Matched.time).hours),
                  WrittenTime(Matched.time).minutes)

\* C19: for a matched time with hour 24 and no marker the result of
\* getDateFromString is hour 0 of the day that every other hour of the
\* string gives.
C19_Hour24SameDay ==
  ( /\ ppc = "returned"
    /\ pout.fn = "getDateFromString"
    /\ Matched.matched
    /\ Matched.marker = <<>>
    /\ WrittenTime(Matched.time).hours = 24 )
  => /\ pout.date.defined
     /\ pout.date.time =
          TodayAt(clock, 0, WrittenTime(Matched.time).minutes)

\* C20: isMessageEditable returns true only for a bubble whose metadata
\* string matches; for a bubble that passes the marker checks and whose
\* string does not match it returns false with one notification.
C20_UnparseableRejected ==
  (ppc = "returned" /\ pout.fn = "isMessageEditable")
  => /\ pout.ret => Matched.matched
     /\ (PassesMarkers(pin) /\ ~Matched.matched)
          => (~pout.ret /\ pout.alerts = 1)

C20_Witness ==
  /\ ppc = "returned"
  /\ pout.fn = "isMessageEditable"
  /\ pin = Bubble(TRUE, TRUE, StrNoSpace, FALSE, FALSE, FALSE, TRUE)
  /\ ~pout.ret
  /\ pout.alerts = 1

=============================================================================
